---- MODULE Spec2Model ----
(***************************************************************************)
(* Price aggregation backend: the reconciliation writer                    *)
(* (save_prices_to_db), the manual override endpoint                       *)
(* (update_manual_price) and the fallback scraper managers.                *)
(*                                                                         *)
(* Prices are floats in the program.  The writer only compares them for    *)
(* equality and the managers only compare them with 0, so they are         *)
(* modelled as integers.                                                   *)
(***************************************************************************)
EXTENDS Integers, Sequences, FiniteSets, TLC

VARIABLES
    unified,    \* committed rows of table unified_prices, in insertion order
    history,    \* committed rows of table price_history, in insertion order
    settings,   \* manual_price_<karat> rows of table settings: karat -> value
    clock,      \* wall clock, read by datetime.now() at the start of an operation
    last,       \* observer: the operation that produced this state
    prev,       \* observer: the operation before it
    cycle,      \* one cycle of a fallback scraper manager
    loops,      \* the five scheduler loops: domain -> position and held result
    event,      \* observer: the latest failed store write of a loop that has
                \* not begun its next cycle
    commits,    \* observer: number of commits made by the scheduler loops
    bank_rates, \* committed rows of table bank_currency_rates
    silver_prices,  \* committed rows of table silver_prices
    options,    \* rows of table settings written through POST /settings:
                \* key -> value text
    reply,      \* what the latest GET /prices request returned
    cache,      \* the MemoryCache instance: _data and _expiry
    calls,      \* the request threads inside a MemoryCache method
    sets,       \* observer: the latest set of each key since the key was
                \* last invalidated: key -> value, time and ttl
    triggers    \* the operator's trigger requests: domain -> position and
                \* held result

vars == <<unified, history, settings, clock, last, prev, cycle,
          loops, event, commits, bank_rates, silver_prices,
          options, reply, cache, calls, sets, triggers>>

\* The state of the HTTP endpoints besides update_manual_price.
apiVars == <<options, reply, cache, calls, sets, triggers>>

\* The state of the scheduler loops and of the tables only they write.
loopVars == <<loops, event, commits, bank_rates, silver_prices>>

\* Number of store operations in one behaviour.
MaxClock == 3

-----------------------------------------------------------------------------
(* Observations, as the managers hand them to the writer.                  *)

\* A gold adapter's dict: no 'country' entry, 'type' "Local", 'currency' "EGP".
GoldObs(karat, sell, buy, source, status) ==
    [type |-> "Local", country |-> "", karat |-> karat, currency |-> "EGP",
     sell_price |-> sell, buy_price |-> buy,
     source |-> source, source_status |-> status]

\* save_currency_prices_to_db: one standardized dict per scraped rate.
CurrencyObs(code, sell, buy, source, status) ==
    [type |-> "currency", country |-> "egypt", karat |-> "", currency |-> code,
     sell_price |-> sell, buy_price |-> buy,
     source |-> source, source_status |-> status]

\* str.lower() on the type and country strings that occur.
Lower(s) ==
    CASE s = "Local" -> "local"
      [] s = "International" -> "international"
      [] OTHER -> s

\* p.get('country', 'egypt').lower()
ObsCountry(p) == IF p.country = "" THEN "egypt" ELSE Lower(p.country)

\* str(p.get('karat') or p.get('currency'))
ObsKey(p) == IF p.karat # "" THEN p.karat ELSE p.currency

-----------------------------------------------------------------------------
(* The session of one save_prices_to_db call: the rows it works on, and    *)
(* how many of the unified rows are flushed, i.e. visible to a query       *)
(* (the session is created with autoflush=False).                          *)

OpenSession(u, h) == [unified |-> u, history |-> h, nflushed |-> Len(u)]

\* Faulty variant of Flush: the added row stays pending, invisible to the
\* next query of the same call.
FlushNothing(db) == db

\* db.add(db_price); db.flush(): the pending row is written inside the
\* transaction and later queries of the call see it.
Flush(db) == [db EXCEPT !.nflushed = Len(db.unified)]

\* db.query(UnifiedPrice).filter(type, country, key).first(): index of the
\* first visible matching row, 0 when there is none.
QueryFirst(db, t, c, k) ==
    LET hits == {i \in 1..db.nflushed :
                    /\ db.unified[i].type = t
                    /\ db.unified[i].country = c
                    /\ db.unified[i].key = k}
    IN IF hits = {} THEN 0 ELSE CHOOSE i \in hits : \A j \in hits : i <= j

HistoryRow(price_id, t, c, k, p, now) ==
    [price_id |-> price_id, type |-> t, country |-> c, key |-> k,
     sell_price |-> p.sell_price, buy_price |-> p.buy_price,
     source_name |-> p.source, timestamp |-> now]

\* Faulty variant of PriceChanged: every update counts as a change.
PriceChangedAlways(old, p) == TRUE

\* Faulty variant of PriceChanged: the buy price is not compared.
PriceChangedSellOnly(old, p) == old.sell_price # p.sell_price

\* price_changed for a key that has a row.
PriceChanged(old, p) ==
    \/ old.sell_price # p.sell_price
    \/ old.buy_price # p.buy_price

\* Faulty variant of price_changed_default: a new key writes no history.
NeverForNewKey == FALSE

\* price_changed for a key that has no row yet.
price_changed_default == TRUE

\* One iteration of the loop of save_prices_to_db.
SaveOne(db, p, now) ==
    LET t == Lower(p.type)
        c == ObsCountry(p)
        k == ObsKey(p)
        idx == QueryFirst(db, t, c, k)
    IN IF idx # 0
       THEN LET old == db.unified[idx]
                price_changed == PriceChanged(old, p)
                new == [old EXCEPT !.sell_price = p.sell_price,
                                   !.buy_price = p.buy_price,
                                   !.currency = p.currency,
                                   !.source_name = p.source,
                                   !.source_status = p.source_status,
                                   !.last_update = now]
            IN [db EXCEPT !.unified = [db.unified EXCEPT ![idx] = new],
                          !.history = IF price_changed
                                      THEN Append(db.history,
                                                  HistoryRow(old.id, t, c, k, p, now))
                                      ELSE db.history]
       ELSE LET row == [id |-> Len(db.unified) + 1,
                        type |-> t, country |-> c, key |-> k,
                        sell_price |-> p.sell_price, buy_price |-> p.buy_price,
                        currency |-> p.currency,
                        source_name |-> p.source,
                        source_status |-> p.source_status,
                        last_update |-> now]
                added == Flush([db EXCEPT !.unified = Append(db.unified, row)])
            IN [added EXCEPT !.history =
                    IF price_changed_default
                    THEN Append(db.history, HistoryRow(row.id, t, c, k, p, now))
                    ELSE db.history]

\* Faulty variant of SaveLoop: only the last of the n observations is applied.
SaveLoopLastOnly(db, batch, n, now) ==
    IF n = 0 THEN db ELSE SaveOne(db, batch[n], now)

\* The loop of save_prices_to_db over the first n observations of the batch.
RECURSIVE SaveLoop(_, _, _, _)
SaveLoop(db, batch, n, now) ==
    IF n = 0 THEN db
    ELSE SaveOne(SaveLoop(db, batch, n - 1, now), batch[n], now)

\* Faulty variant of CloseSession: what the session wrote before the
\* failure stays in the store.
CloseKeepsPending(committed, db, ok) == db

\* db.close() in the caller's finally block (or get_db's): a transaction
\* that was not committed is rolled back.
CloseSession(committed, db, ok) == IF ok THEN db ELSE committed

\* save_prices_to_db(db, prices_data) followed by the caller's db.close().
\* failAt = 0: no failure.  failAt in 1..Len(batch): an exception is raised
\* while observation failAt is processed, before it writes anything.
\* failAt = Len(batch) + 1: db.commit() raises.
save_prices_to_db(u, h, batch, failAt, now) ==
    LET ok == failAt = 0
        n == IF failAt = 0 \/ failAt > Len(batch) THEN Len(batch) ELSE failAt - 1
        opened == OpenSession(u, h)
        db == SaveLoop(opened, batch, n, now)
        closed == CloseSession(opened, db, ok)
    IN [unified |-> closed.unified, history |-> closed.history,
        ok |-> ok, dirty |-> db # opened]

-----------------------------------------------------------------------------
(* update_manual_price                                                     *)

\* db.query(UnifiedPrice).filter(type.in_(["gold","local"]),
\*     country == "egypt", key == karat).first()
QueryManualRow(u, karat) ==
    LET hits == {i \in 1..Len(u) :
                    /\ u[i].type \in {"gold", "local"}
                    /\ u[i].country = "egypt"
                    /\ u[i].key = karat}
    IN IF hits = {} THEN 0 ELSE CHOOSE i \in hits : \A j \in hits : i <= j

\* The PriceHistory row update_manual_price adds (no price_id: 0).
ManualHistoryRow(karat, price, now) ==
    [price_id |-> 0, type |-> "gold", country |-> "egypt", key |-> karat,
     sell_price |-> price, buy_price |-> price,
     source_name |-> "Manual Override", timestamp |-> now]

\* The settings table after the call: price = NoPrice removes the row.
NoPrice == -1

ManualSettings(s, karat, price) ==
    IF price = NoPrice
    THEN [k \in DOMAIN s \ {karat} |-> s[k]]
    ELSE [k \in DOMAIN s \cup {karat} |-> IF k = karat THEN price ELSE s[k]]

ManualUnified(u, karat, price, now) ==
    LET idx == QueryManualRow(u, karat)
    IN IF price = NoPrice \/ idx = 0 THEN u
       ELSE [u EXCEPT ![idx] = [@ EXCEPT !.sell_price = price,
                                         !.buy_price = price,
                                         !.source_name = "Manual",
                                         !.source_status = "Manual",
                                         !.last_update = now]]

\* Faulty variant of ManualHistory: the key's earlier manual entries are
\* dropped when a new one is written.
RECURSIVE WithoutManual(_, _)
WithoutManual(h, karat) ==
    IF h = <<>> THEN <<>>
    ELSE IF Head(h).source_name = "Manual Override" /\ Head(h).key = karat
         THEN WithoutManual(Tail(h), karat)
         ELSE <<Head(h)>> \o WithoutManual(Tail(h), karat)

ManualHistoryReplace(h, karat, price, now) ==
    IF price = NoPrice THEN h
    ELSE Append(WithoutManual(h, karat), ManualHistoryRow(karat, price, now))

ManualHistory(h, karat, price, now) ==
    IF price = NoPrice THEN h
    ELSE Append(h, ManualHistoryRow(karat, price, now))

-----------------------------------------------------------------------------
(* GoldHistoryScraper._process_and_save: historical seeding.  A point of   *)
(* the chart is a day (counted back from today, so its timestamp lies      *)
(* before every clock value) and the karat-21 price of that day.           *)

\* target_dt of a chart label
SeedTimestamp(day) == 0 - day

\* round(price * (k/21), 2), on the integer prices of the model
DerivedPrice(price, k) == (price * k) \div 21

SeedRow(key, price, source, day) ==
    [price_id |-> 0, type |-> "gold", country |-> "egypt", key |-> key,
     sell_price |-> price, buy_price |-> price,
     source_name |-> source, timestamp |-> SeedTimestamp(day)]

\* The three rows added for one point.
SeedRows(point) ==
    <<SeedRow("21", point.price, "GoldPriceLive", point.day),
      SeedRow("24", DerivedPrice(point.price, 24), "GoldPriceLiveDerived", point.day),
      SeedRow("18", DerivedPrice(point.price, 18), "GoldPriceLiveDerived", point.day)>>

\* exists: a karat-21 row of that timestamp.  The session never flushes
\* inside the loop (autoflush=False), so the query sees committed rows only.
SeedExists(committed, point) ==
    \E i \in 1..Len(committed) :
        /\ committed[i].type = "gold"
        /\ committed[i].country = "egypt"
        /\ committed[i].key = "21"
        /\ committed[i].timestamp = SeedTimestamp(point.day)

\* The loop of _process_and_save over the first n points, then db.commit().
RECURSIVE process_and_save(_, _, _)
process_and_save(committed, points, n) ==
    IF n = 0 THEN committed
    ELSE LET h == process_and_save(committed, points, n - 1)
             point == points[n]
         IN IF point.price <= 0 \/ SeedExists(committed, point)
            THEN h
            ELSE h \o SeedRows(point)

-----------------------------------------------------------------------------
(* Inputs                                                                  *)

\* (sell, buy) quotes a gold page can show.
GoldQuotes == {<<4500, 4450>>, <<4600, 4450>>, <<4500, 4400>>}

\* The winning adapter of a gold cycle with its tag.
GoldWinners == {<<"GoldEra", "Primary">>, <<"GoldBullion", "Fallback">>}

\* Results of ScraperManager.get_latest_prices: non-empty, one source.  The
\* GoldEra page can list two rows, of two karats or of the same karat.
GoldBatches ==
    {<<GoldObs("21", q[1], q[2], w[1], w[2])>> : q \in GoldQuotes, w \in GoldWinners}
    \cup {<<GoldObs("21", 4500, 4450, "GoldEra", "Primary"),
            GoldObs("24", 5100, 5050, "GoldEra", "Primary")>>,
          <<GoldObs("21", 4500, 4450, "GoldEra", "Primary"),
            GoldObs("21", 4600, 4450, "GoldEra", "Primary")>>}

\* What the fallback of one bank contributes to get_latest_rates.
NbeRates == {<<>>,
             <<CurrencyObs("USD", 50, 49, "Ta3weem_nbe", "Primary")>>}

BdcRates == {<<>>,
             <<CurrencyObs("USD", 50, 49, "Ta3weem_bdc", "Primary")>>,
             <<CurrencyObs("USD", 51, 49, "Ta3weem_bdc", "Primary")>>,
             <<CurrencyObs("USD", 51, 49, "Egrates_bdc", "Fallback")>>}

\* Results of CurrencyScraperManager.get_latest_rates passed on by
\* save_currency_prices_to_db (called only with a non-empty list).
CurrencyBatches == {n \o b : n \in NbeRates, b \in BdcRates} \ {<<>>}

Batches == GoldBatches \cup CurrencyBatches

ManualKarats == {"21"}

ManualPrices == {4500, 4700}

\* Charts the history page can show: (day, karat-21 price) points; a point
\* with price 0 is skipped.
SeedCharts ==
    {<<[day |-> 1, price |-> 4200]>>,
     <<[day |-> 1, price |-> 4410], [day |-> 2, price |-> 0]>>}

-----------------------------------------------------------------------------
(* The store and its operations                                            *)

NoOp == [op |-> "init", ok |-> TRUE, batch |-> <<>>]

\* No cycle of a manager is followed in the store's specification.
Idle == [domain |-> "none", caller |-> "none",
         store |-> [readable |-> TRUE, names |-> <<>>, rows |-> <<>>],
         order |-> <<>>, web |-> <<>>, bank |-> 0, pos |-> 0,
         fetched |-> <<>>, raised |-> {}, last_error |-> {}, result |-> <<>>,
         pc |-> "idle"]

StoreInit ==
    /\ unified = <<>>
    /\ history = <<>>
    /\ settings = <<>>
    /\ clock = 0
    /\ last = [op |-> "init", ok |-> TRUE, dirty |-> FALSE, batch |-> <<>>,
               karat |-> "", price |-> NoPrice,
               pre_unified |-> <<>>, pre_history |-> <<>>, pre_settings |-> <<>>]
    /\ prev = NoOp

\* The response of a request that has not been made.
NoReply == [status |-> "none", rows |-> <<>>]

\* MemoryCache.__init__
MemoryCache == [data |-> <<>>, expiry |-> <<>>]

\* Request threads of the worker pool that use the cache.
Threads == {"t1", "t2"}

NoCall == [op |-> "none", pc |-> "idle", key |-> "", value |-> "", ttl |-> 0,
           at |-> 0, result |-> "None"]

\* Domains with a trigger endpoint.
TriggerDomains == {"gold", "currency", "banks"}

\* lifespan has created the five tasks; none has begun its first cycle.
Domains == {"gold", "country", "currency", "banks", "silver"}

NoEvent == [domain |-> "none", what |-> "start"]

LoopInit ==
    /\ loops = [d \in Domains |-> [pc |-> "sleep", prices |-> <<>>]]
    /\ event = NoEvent
    /\ commits = 0
    /\ bank_rates = <<>>
    /\ silver_prices = <<>>

\* No setting has been posted, no request has been answered, the cache
\* instance of the module is empty and no thread is inside it.
ApiInit ==
    /\ options = <<>>
    /\ reply = NoReply
    /\ cache = MemoryCache
    /\ calls = [t \in Threads |-> NoCall]
    /\ sets = <<>>
    /\ triggers = [d \in TriggerDomains |-> [pc |-> "idle", prices |-> <<>>]]

Init == StoreInit /\ cycle = Idle /\ LoopInit /\ ApiInit

Summary(l) == [op |-> l.op, ok |-> l.ok, batch |-> l.batch]

\* One automated commit: run_scraper_periodically, trigger_gold_scrape,
\* run_currency_scraper_periodically or trigger_currency_scrape calling
\* save_prices_to_db with the manager's result.
SavePrices(batch, failAt) ==
    /\ clock < MaxClock
    /\ LET r == save_prices_to_db(unified, history, batch, failAt, clock + 1)
       IN /\ unified' = r.unified
          /\ history' = r.history
          /\ last' = [op |-> "save", ok |-> r.ok, dirty |-> r.dirty,
                      batch |-> IF r.ok THEN batch ELSE <<>>,
                      karat |-> "", price |-> NoPrice,
                      pre_unified |-> unified, pre_history |-> history,
                      pre_settings |-> settings]
    /\ clock' = clock + 1
    /\ prev' = Summary(last)
    /\ UNCHANGED <<settings, cycle, loopVars, apiVars>>

\* POST /manual-price
update_manual_price(karat, price) ==
    /\ clock < MaxClock
    /\ settings' = ManualSettings(settings, karat, price)
    /\ history' = ManualHistory(history, karat, price, clock + 1)
    /\ unified' = ManualUnified(unified, karat, price, clock + 1)
    /\ last' = [op |-> IF price = NoPrice THEN "manual_clear" ELSE "manual_set",
                ok |-> TRUE, dirty |-> FALSE, batch |-> <<>>,
                karat |-> karat, price |-> price,
                pre_unified |-> unified, pre_history |-> history,
                pre_settings |-> settings]
    /\ clock' = clock + 1
    /\ prev' = Summary(last)
    /\ UNCHANGED <<cycle, loopVars, apiVars>>

\* POST /seed-archive: scrape_all_historical_periods
SeedHistory(points) ==
    /\ clock < MaxClock
    /\ history' = process_and_save(history, points, Len(points))
    /\ last' = [op |-> "seed", ok |-> TRUE, dirty |-> FALSE, batch |-> <<>>,
                karat |-> "", price |-> NoPrice,
                pre_unified |-> unified, pre_history |-> history,
                pre_settings |-> settings]
    /\ clock' = clock + 1
    /\ prev' = Summary(last)
    /\ UNCHANGED <<unified, settings, cycle, loopVars, apiVars>>

Commit == \E batch \in Batches : SavePrices(batch, 0)

Seed == \E points \in SeedCharts : SeedHistory(points)

FailedCommit == \E batch \in Batches : \E failAt \in 1..(Len(batch) + 1) :
                    SavePrices(batch, failAt)

ManualSet == \E karat \in ManualKarats : \E price \in ManualPrices :
                    update_manual_price(karat, price)

ManualClear == \E karat \in ManualKarats : update_manual_price(karat, NoPrice)

Next == Commit \/ FailedCommit \/ ManualSet \/ ManualClear \/ Seed

Spec == Init /\ [][Next]_vars

-----------------------------------------------------------------------------
(* Fallback scraper managers.  A cycle record holds the resolved order,    *)
(* what each fetch of this cycle answers (web), the position in the order, *)
(* the fetches made so far, the adapters an exception left (raised), the   *)
(* adapters that retain a last_error, and the result.                      *)

\* ScraperManager.all_sources / default_order
default_order ==
    <<"GoldEra", "GoldBullion", "EgyptGoldPriceToday", "GoldPriceLive",
      "SouqPriceToday">>

Range(f) == {f[i] : i \in DOMAIN f}

all_sources == Range(default_order)

RECURSIVE KnownOf(_)
KnownOf(names) ==
    IF names = <<>> THEN <<>>
    ELSE IF Head(names) \in all_sources
         THEN <<Head(names)>> \o KnownOf(Tail(names))
         ELSE KnownOf(Tail(names))

\* Faulty variant of MissingFrom: nothing is appended.
MissingNone(defaults, ordered) == <<>>

RECURSIVE MissingFrom(_, _)
MissingFrom(defaults, ordered) ==
    IF defaults = <<>> THEN <<>>
    ELSE IF Head(defaults) \in Range(ordered)
         THEN MissingFrom(Tail(defaults), ordered)
         ELSE <<Head(defaults)>> \o MissingFrom(Tail(defaults), ordered)

\* ScraperManager._get_ordered_sources; names = <<>> stands for a missing or
\* empty gold_source_order setting.
get_ordered_sources(names) ==
    IF names = <<>> THEN default_order
    ELSE KnownOf(names) \o MissingFrom(default_order, KnownOf(names))

\* A row of a price table as an adapter reads it: the cleaned karat and the
\* cleaned numbers of the two price columns.
PageRow(karat, val1, val2) == [karat |-> karat, val1 |-> val1, val2 |-> val2]

\* What the site of an adapter can show in one cycle.  "raise" is a fetch
\* that fails: a network error, a timeout, a non-200 status or a parse error.
PageRows(kind) ==
    CASE kind = "zero" -> <<PageRow("21", 0, 0)>>
      [] kind = "mixed" -> <<PageRow("24", 0, 0), PageRow("21", 4500, 4450)>>
      [] kind = "low" -> <<PageRow("21", 3, 2), PageRow("24", 5100, 5050)>>
      [] kind = "two" -> <<PageRow("21", 4600, 4450), PageRow("24", 5100, 5050)>>
      [] OTHER -> <<>>

GoldKinds == {"raise", "empty", "zero", "mixed", "low", "two"}

\* "if val1 > 500" / "500 < p1 < 15000": the thresholds of the adapters
\* that have any.
gold_floor == 500

gram_ceiling == 15000

MaxOf(a, b) == IF a >= b THEN a ELSE b

MinOf(a, b) == IF a <= b THEN a ELSE b

\* The test each fetch_prices applies to a row before it appends it.
GoldKeeps(source, row) ==
    CASE source = "GoldEra" -> row.val1 > 0
      [] source = "GoldBullion" -> TRUE
      [] source = "EgyptGoldPriceToday" -> row.karat # "" /\ row.val1 > gold_floor
      [] source = "GoldPriceLive" ->
            /\ row.karat # ""
            /\ gold_floor < row.val1 /\ row.val1 < gram_ceiling
            /\ gold_floor < row.val2 /\ row.val2 < gram_ceiling
      [] OTHER -> row.karat # "" /\ MaxOf(row.val1, row.val2) < gram_ceiling

\* The dict appended for a row: GoldEra reads Karat | Sell | Buy, the other
\* adapters take sell = max and buy = min of the two values.
GoldRowObs(source, row) ==
    IF source = "GoldEra"
    THEN GoldObs(row.karat, row.val1, row.val2, source, "")
    ELSE GoldObs(row.karat, MaxOf(row.val1, row.val2), MinOf(row.val1, row.val2),
                 source, "")

RECURSIVE GoldParse(_, _)
GoldParse(source, rows) ==
    IF rows = <<>> THEN <<>>
    ELSE IF GoldKeeps(source, Head(rows))
         THEN <<GoldRowObs(source, Head(rows))>> \o GoldParse(source, Tail(rows))
         ELSE GoldParse(source, Tail(rows))

\* GoldPriceLiveSource: {p['karat']: p for p in prices}.values(), one dict per
\* karat, the last one read, in the order the karats first appear.
RECURSIVE SelectSeqIdx(_, _, _)
SelectSeqIdx(prices, keep, i) ==
    IF i > Len(prices) THEN <<>>
    ELSE IF i \in keep
         THEN <<prices[i]>> \o SelectSeqIdx(prices, keep, i + 1)
         ELSE SelectSeqIdx(prices, keep, i + 1)

unique_prices(prices) ==
    LET firsts == {i \in 1..Len(prices) :
                     \A j \in 1..(i - 1) : prices[j].karat # prices[i].karat}
        lastOf(i) == CHOOSE j \in 1..Len(prices) :
                        /\ prices[j].karat = prices[i].karat
                        /\ \A k \in (j + 1)..Len(prices) :
                                prices[k].karat # prices[i].karat
        latest == [i \in 1..Len(prices) |-> prices[lastOf(i)]]
    IN SelectSeqIdx(latest, firsts, 1)

\* Adapters whose except clause stores self.last_error = str(e).
RetainsLastError == {"GoldEra", "GoldBullion"}

\* One fetch_prices call: what it returns to the manager, whether an
\* exception leaves it, and whether last_error is set afterwards.  Every
\* gold adapter catches Exception and returns [].
GoldPage(kind, source) ==
    IF kind = "raise"
    THEN [raises |-> FALSE, prices |-> <<>>,
          last_error |-> source \in RetainsLastError]
    ELSE [raises |-> FALSE,
          prices |-> IF source = "GoldPriceLive"
                     THEN unique_prices(GoldParse(source, PageRows(kind)))
                     ELSE GoldParse(source, PageRows(kind)),
          last_error |-> FALSE]

\* Faulty variant of valid_prices: any non-empty answer counts.
valid_prices_unfiltered(prices) == prices

\* valid_prices = [p for p in prices if p['sell_price'] > 0]
RECURSIVE valid_prices(_)
valid_prices(prices) ==
    IF prices = <<>> THEN <<>>
    ELSE IF Head(prices).sell_price > 0
         THEN <<Head(prices)>> \o valid_prices(Tail(prices))
         ELSE valid_prices(Tail(prices))

\* Faulty variant of gold_status: every winner is tagged Primary.
gold_status_primary(pos) == "Primary"

\* status = "Primary" if index == 0 else "Fallback"  (pos = index + 1)
gold_status(pos) == IF pos = 1 THEN "Primary" ELSE "Fallback"

Tagged(prices, status) ==
    [i \in 1..Len(prices) |-> [prices[i] EXCEPT !.source_status = status]]

\* One iteration of the loop of ScraperManager.get_latest_prices.
GoldTry ==
    /\ cycle.domain = "gold" /\ cycle.pc = "run"
    /\ cycle.pos <= Len(cycle.order)
    /\ LET source == cycle.order[cycle.pos]
           page == GoldPage(cycle.web[cycle.pos], source)
           valid == valid_prices(page.prices)
           tried == [cycle EXCEPT
                        !.fetched = Append(@, source),
                        !.raised = IF page.raises THEN @ \cup {source} ELSE @,
                        !.last_error = IF page.last_error THEN @ \cup {source}
                                       ELSE @]
       IN cycle' = IF ~page.raises /\ valid # <<>>
                   THEN [tried EXCEPT !.result = Tagged(valid, gold_status(cycle.pos)),
                                      !.pc = "done"]
                   ELSE [tried EXCEPT !.pos = @ + 1]
    /\ UNCHANGED <<unified, history, settings, clock, last, prev, loopVars,
                   apiVars>>

\* "All sources failed.": return []
GoldExhausted ==
    /\ cycle.domain = "gold" /\ cycle.pc = "run"
    /\ cycle.pos > Len(cycle.order)
    /\ cycle' = [cycle EXCEPT !.pc = "done"]
    /\ UNCHANGED <<unified, history, settings, clock, last, prev, loopVars,
                   apiVars>>

\* The caller of get_latest_prices (run_scraper_periodically or
\* trigger_gold_scrape): if prices: save_prices_to_db(db, prices)
GoldSave ==
    /\ cycle.domain = "gold" /\ cycle.pc = "done"
    /\ cycle.result # <<>>
    /\ LET r == save_prices_to_db(unified, history, cycle.result, 0, clock + 1)
       IN /\ unified' = r.unified
          /\ history' = r.history
    /\ clock' = clock + 1
    /\ cycle' = [cycle EXCEPT !.pc = "saved"]
    /\ UNCHANGED <<settings, last, prev, loopVars, apiVars>>

\* CurrencyScraperManager.sources_map
CurrencySites == {"ta3weem", "egrates", "banklive"}

Banks == <<"nbe", "bdc">>

\* The name property of the three CurrencySource classes.
CurrencySourceName(site, bank) ==
    CASE site = "ta3weem" -> IF bank = "nbe" THEN "Ta3weem_nbe" ELSE "Ta3weem_bdc"
      [] site = "egrates" -> IF bank = "nbe" THEN "Egrates_nbe" ELSE "Egrates_bdc"
      [] OTHER -> IF bank = "nbe" THEN "BankLive_nbe" ELSE "BankLive_bdc"

\* The site an adapter name belongs to.
SiteOf(name) ==
    CASE name \in {"Ta3weem_nbe", "Ta3weem_bdc"} -> "ta3weem"
      [] name \in {"Egrates_nbe", "Egrates_bdc"} -> "egrates"
      [] name \in {"BankLive_nbe", "BankLive_bdc"} -> "banklive"
      [] OTHER -> name

\* One fetch_rates call; the result is shown standardized as
\* save_currency_prices_to_db passes it on.  The three adapters catch
\* Exception, log it and return []; they have no last_error field.
CurrencyPage(kind, site, bank) ==
    CASE kind = "raise" -> [raises |-> FALSE, rates |-> <<>>, last_error |-> FALSE]
      [] kind = "empty" -> [raises |-> FALSE, rates |-> <<>>, last_error |-> FALSE]
      [] OTHER ->
            [raises |-> FALSE,
             rates |-> <<CurrencyObs("USD", IF bank = "nbe" THEN 50 ELSE 51, 49,
                                     CurrencySourceName(site, bank), "")>>,
             last_error |-> FALSE]

CurrencyKinds == {"raise", "empty", "rates"}

\* Faulty variant of currency_status: every winner is tagged Primary.
always_primary(source_id, ids) == "Primary"

\* "Primary" if source_id == enabled_source_ids[0] else "Fallback"
currency_status(source_id, ids) ==
    IF source_id = ids[1] THEN "Primary" ELSE "Fallback"

\* After the inner loop of get_latest_rates: the next bank, or the return.
NextBank(c) ==
    [c EXCEPT !.bank = @ + 1, !.pos = 1,
              !.pc = IF c.bank + 1 > Len(Banks) THEN "done" ELSE "run"]

\* One iteration of the inner loop of CurrencyScraperManager.get_latest_rates.
CurrencyTry ==
    /\ cycle.domain = "currency" /\ cycle.pc = "run"
    /\ cycle.pos <= Len(cycle.order)
    /\ LET source_id == cycle.order[cycle.pos]
           bank == Banks[cycle.bank]
           page == CurrencyPage(cycle.web[cycle.bank][cycle.pos], source_id, bank)
           tried == [cycle EXCEPT
                        !.fetched = Append(@, CurrencySourceName(source_id, bank)),
                        !.raised = IF page.raises
                                   THEN @ \cup {CurrencySourceName(source_id, bank)}
                                   ELSE @,
                        !.last_error = IF page.last_error
                                       THEN @ \cup {CurrencySourceName(source_id, bank)}
                                       ELSE @]
       IN cycle' =
            IF source_id \notin CurrencySites
            THEN [cycle EXCEPT !.pos = @ + 1]
            ELSE IF ~page.raises /\ page.rates # <<>>
                 THEN NextBank([tried EXCEPT !.result =
                        @ \o Tagged(page.rates,
                                    currency_status(source_id, cycle.order))])
                 ELSE [tried EXCEPT !.pos = @ + 1]
    /\ UNCHANGED <<unified, history, settings, clock, last, prev, loopVars,
                   apiVars>>

\* The inner loop ends without a break: bank_rates stays [].
CurrencyBankExhausted ==
    /\ cycle.domain = "currency" /\ cycle.pc = "run"
    /\ cycle.pos > Len(cycle.order)
    /\ cycle' = NextBank(cycle)
    /\ UNCHANGED <<unified, history, settings, clock, last, prev, loopVars,
                   apiVars>>

\* AllBanksScraperManager.sources
BanksSites == {"ta3weem", "egrates", "banklive"}

\* The NAME of the three AllBanksSource classes.
BanksSourceName(site) ==
    CASE site = "ta3weem" -> "Ta3weem"
      [] site = "egrates" -> "Egrates"
      [] OTHER -> "BankLive"

BanksKinds == {"raise", "empty", "banks"}

\* One fetch_all_banks("USD") call: the adapters catch Exception and
\* return []; they have no last_error field.
BanksPage(kind, site) ==
    [raises |-> FALSE,
     banks |-> IF kind = "banks"
               THEN <<[bank_name |-> "NBE", currency |-> "USD",
                       sell_price |-> 50, buy_price |-> 49,
                       source |-> BanksSourceName(site)]>>
               ELSE <<>>,
     last_error |-> FALSE]

\* One iteration of the loop of fetch_all_banks_for_currency.
BanksTry ==
    /\ cycle.domain = "banks" /\ cycle.pc = "run"
    /\ cycle.pos <= Len(cycle.order)
    /\ LET source_id == cycle.order[cycle.pos]
           page == BanksPage(cycle.web[cycle.pos], source_id)
           tried == [cycle EXCEPT
                        !.fetched = Append(@, source_id),
                        !.raised = IF page.raises THEN @ \cup {source_id} ELSE @,
                        !.last_error = IF page.last_error THEN @ \cup {source_id}
                                       ELSE @]
       IN cycle' =
            IF source_id \notin BanksSites
            THEN [cycle EXCEPT !.pos = @ + 1]
            ELSE IF ~page.raises /\ page.banks # <<>>
                 THEN [tried EXCEPT !.result = page.banks, !.pc = "done"]
                 ELSE [tried EXCEPT !.pos = @ + 1]
    /\ UNCHANGED <<unified, history, settings, clock, last, prev, loopVars,
                   apiVars>>

\* "All sources failed for {currency_code}": return []
BanksExhausted ==
    /\ cycle.domain = "banks" /\ cycle.pc = "run"
    /\ cycle.pos > Len(cycle.order)
    /\ cycle' = [cycle EXCEPT !.pc = "done"]
    /\ UNCHANGED <<unified, history, settings, clock, last, prev, loopVars,
                   apiVars>>

\* What _scrape_safehavenhub / _scrape_goldpricelive can answer: an
\* exception, None, a dict without the price the manager asks for, or a
\* dict with it.
SilverKinds == {"raise", "none", "partial", "data"}

\* data and data.get('silver_999_sell') / data.get('silver_gram_price')
SilverUsable(kind) == kind = "data"

\* One _scrape_safehavenhub / _scrape_goldpricelive call: the except clause
\* logs the exception and re-raises it; the scraper has no last_error field.
SilverPage(kind) ==
    [raises |-> kind = "raise", usable |-> SilverUsable(kind), last_error |-> FALSE]

\* data['source_used']
SilverSourceUsed(source_name) ==
    IF source_name = "safehavenhub" THEN "safehavenhub" ELSE "gold-price-live"

\* 'Primary' if source_name == enabled_sources[0] else 'Fallback'
silver_status(source_name, enabled_sources) ==
    IF source_name = enabled_sources[1] THEN "Primary" ELSE "Fallback"

\* One iteration of the loop of SilverScraper.scrape.
SilverTry ==
    /\ cycle.domain = "silver" /\ cycle.pc = "run"
    /\ cycle.pos <= Len(cycle.order)
    /\ LET source_name == cycle.order[cycle.pos]
           page == SilverPage(cycle.web[cycle.pos])
           tried == [cycle EXCEPT
                        !.fetched = Append(@, source_name),
                        !.raised = IF page.raises THEN @ \cup {source_name} ELSE @,
                        !.last_error = IF page.last_error THEN @ \cup {source_name}
                                       ELSE @]
       IN cycle' =
            IF source_name \notin {"safehavenhub", "goldpricelive"}
            THEN [cycle EXCEPT !.pos = @ + 1]
            ELSE IF ~page.raises /\ page.usable
                 THEN [tried EXCEPT
                         !.result = <<[source |-> SilverSourceUsed(source_name),
                                       source_status |->
                                           silver_status(source_name, cycle.order)]>>,
                         !.pc = "done"]
                 ELSE [tried EXCEPT !.pos = @ + 1]
    /\ UNCHANGED <<unified, history, settings, clock, last, prev, loopVars,
                   apiVars>>

\* raise Exception("All silver price sources failed")
SilverExhausted ==
    /\ cycle.domain = "silver" /\ cycle.pc = "run"
    /\ cycle.pos > Len(cycle.order)
    /\ cycle' = [cycle EXCEPT !.pc = "failed"]
    /\ UNCHANGED <<unified, history, settings, clock, last, prev, loopVars,
                   apiVars>>

-----------------------------------------------------------------------------
(* Priority resolvers and the start of a manager's cycle.                  *)

\* A row of currency_source_settings / silver_source_settings.
SourceRow(source_name, is_enabled, priority) ==
    [source_name |-> source_name, is_enabled |-> is_enabled,
     priority |-> priority]

\* What a resolver finds in the store: whether the query succeeds, the
\* gold_source_order value split at commas (gold) and the rows of the
\* domain's settings table (currency, banks, silver).
GoldStore(readable, names) ==
    [readable |-> readable, names |-> names, rows |-> <<>>]

TableStore(readable, rows) ==
    [readable |-> readable, names |-> <<>>, rows |-> rows]

\* Values of the gold_source_order setting; POST /settings stores any string.
GoldOrderSettings ==
    {<<>>, <<"GoldBullion", "GoldEra">>, <<"Isagha", "SouqPriceToday">>,
     <<"Isagha">>, <<"GoldEra", "GoldEra">>}

\* ScraperManager._get_ordered_sources with its try/except: an exception of
\* the query leads to the default order.
ordered_sources(store) ==
    IF store.readable THEN get_ordered_sources(store.names) ELSE default_order

EnabledNames(rows) ==
    {rows[i].source_name : i \in {j \in 1..Len(rows) : rows[j].is_enabled}}

PriorityOf(rows, name) ==
    rows[CHOOSE i \in 1..Len(rows) : rows[i].source_name = name].priority

\* query(...).filter(is_enabled == True).order_by(priority).all(), as names:
\* every list of the enabled names in ascending priority (the store chooses
\* among rows of equal priority).
EnabledInOrder(rows) ==
    {o \in [1..Cardinality(EnabledNames(rows)) -> EnabledNames(rows)] :
        /\ \A i, j \in DOMAIN o : i # j => o[i] # o[j]
        /\ \A i, j \in DOMAIN o :
                i < j => PriorityOf(rows, o[i]) <= PriorityOf(rows, o[j])}

\* Faulty variant of OrDefault: the names are returned as they are.
NoDefault(names, default) == names

\* "if settings: return [...]" / "[...] or default"
OrDefault(names, default) == IF names # <<>> THEN names ELSE default

\* _get_enabled_sources_in_order of CurrencyScraperManager,
\* AllBanksScraperManager and SilverScraper: the lists it can return.
enabled_sources_in_order(has_session, store, default) ==
    IF ~has_session \/ ~store.readable THEN {default}
    ELSE {OrDefault(o, default) : o \in EnabledInOrder(store.rows)}

currency_default == <<"ta3weem", "egrates", "banklive">>

silver_default == <<"safehavenhub", "goldpricelive">>

\* Whether the caller hands its session to the manager: the periodic
\* currency loop calls get_all_currency_rates(enabled_sources) without db.
HasSession(domain, caller) == ~(domain = "currency" /\ caller = "loop")

\* Contents of currency_source_settings: empty until GET /currency-sources
\* seeds the three rows; then only is_enabled and priority change.
CurrencyTables ==
    {<<>>,
     <<SourceRow("ta3weem", TRUE, 1), SourceRow("egrates", TRUE, 2),
       SourceRow("banklive", TRUE, 3)>>,
     <<SourceRow("ta3weem", TRUE, 2), SourceRow("egrates", TRUE, 1),
       SourceRow("banklive", FALSE, 3)>>,
     <<SourceRow("ta3weem", FALSE, 1), SourceRow("egrates", FALSE, 2),
       SourceRow("banklive", TRUE, 3)>>,
     <<SourceRow("ta3weem", FALSE, 1), SourceRow("egrates", FALSE, 2),
       SourceRow("banklive", FALSE, 3)>>}

\* Contents of silver_source_settings.
SilverTables ==
    {<<>>,
     <<SourceRow("safehavenhub", TRUE, 1), SourceRow("goldpricelive", TRUE, 2)>>,
     <<SourceRow("safehavenhub", TRUE, 2), SourceRow("goldpricelive", TRUE, 1)>>,
     <<SourceRow("safehavenhub", TRUE, 1), SourceRow("goldpricelive", TRUE, 1)>>,
     <<SourceRow("safehavenhub", TRUE, 1), SourceRow("goldpricelive", FALSE, 2)>>,
     <<SourceRow("safehavenhub", FALSE, 1), SourceRow("goldpricelive", TRUE, 2)>>,
     <<SourceRow("safehavenhub", FALSE, 1), SourceRow("goldpricelive", FALSE, 2)>>}

\* A manager is constructed for a cycle: nothing is resolved yet.
Request(domain, caller, store) ==
    [domain |-> domain, caller |-> caller, store |-> store,
     order |-> <<>>, web |-> <<>>, bank |-> 1, pos |-> 1,
     fetched |-> <<>>, raised |-> {}, last_error |-> {}, result |-> <<>>,
     pc |-> "resolve"]

GoldRequests ==
    {Request("gold", caller, GoldStore(TRUE, names)) :
        caller \in {"loop"}, names \in GoldOrderSettings}
    \cup {Request("gold", "trigger", GoldStore(FALSE, <<>>))}

CurrencyRequests ==
    {Request("currency", "trigger", TableStore(TRUE, rows)) : rows \in CurrencyTables}
    \cup {Request("currency", "trigger", TableStore(FALSE, <<>>)),
          Request("currency", "loop",
                  TableStore(TRUE, <<SourceRow("ta3weem", TRUE, 2),
                                     SourceRow("egrates", TRUE, 1),
                                     SourceRow("banklive", FALSE, 3)>>))}

BanksRequests ==
    {Request("banks", caller, TableStore(TRUE, rows)) :
        caller \in {"loop", "trigger"}, rows \in CurrencyTables}
    \cup {Request("banks", "loop", TableStore(FALSE, <<>>))}

SilverRequests ==
    {Request("silver", "loop", TableStore(TRUE, rows)) : rows \in SilverTables}
    \cup {Request("silver", "loop", TableStore(FALSE, <<>>))}

\* The lists the resolver of the cycle's manager can return.
ResolvedOrders(c) ==
    CASE c.domain = "gold" -> {ordered_sources(c.store)}
      [] c.domain = "silver" ->
            enabled_sources_in_order(HasSession(c.domain, c.caller), c.store,
                                     silver_default)
      [] OTHER ->
            enabled_sources_in_order(HasSession(c.domain, c.caller), c.store,
                                     currency_default)

\* What the sites can answer to the fetches of one cycle.
Webs(domain, order) ==
    CASE domain = "gold" -> [1..Len(order) -> GoldKinds]
      [] domain = "currency" -> [1..Len(Banks) -> [1..Len(order) -> CurrencyKinds]]
      [] domain = "banks" -> [1..Len(order) -> BanksKinds]
      [] OTHER -> [1..Len(order) -> SilverKinds]

\* The first lines of get_latest_prices / get_latest_rates /
\* fetch_all_banks_for_currency / scrape: the order is resolved.
Resolve ==
    /\ cycle.pc = "resolve"
    /\ \E order \in ResolvedOrders(cycle) : \E web \in Webs(cycle.domain, order) :
            cycle' = [cycle EXCEPT !.order = order, !.web = web, !.pc = "run"]
    /\ UNCHANGED <<unified, history, settings, clock, last, prev, loopVars,
                   apiVars>>

MgrInit ==
    /\ StoreInit
    /\ LoopInit
    /\ ApiInit
    /\ cycle \in GoldRequests \cup CurrencyRequests \cup BanksRequests
                 \cup SilverRequests

MgrNext ==
    \/ Resolve
    \/ GoldTry \/ GoldExhausted \/ GoldSave
    \/ BanksTry \/ BanksExhausted
    \/ CurrencyTry \/ CurrencyBankExhausted
    \/ SilverTry \/ SilverExhausted

SpecMgr == MgrInit /\ [][MgrNext]_vars

-----------------------------------------------------------------------------
(* The scheduler loops of main.py.  Each loop is a task on one event loop: *)
(* between two awaits it runs alone, so a cycle is three steps: the sleep  *)
(* returns and a session is opened (Begin), the settings are read and the  *)
(* manager is awaited (Scrape), and what follows the await up to           *)
(* db.close() runs in one piece (Write).  update_manual_price runs on a    *)
(* worker thread and can fall between any two of them.                     *)

\* Number of commits of the scheduler loops in one behaviour.  A loop can
\* still be handed a result when they are used up: its write then fails.
MaxCommits == 1

\* Number of operator calls while the loops run.
MaxManual == 1

\* An observation of GoldPriceTodayCountrySource.fetch_prices, tagged by
\* CountryScraperManager.get_all_country_prices.
CountryObs(country, karat, price, currency) ==
    [type |-> "International", country |-> country, karat |-> karat,
     currency |-> currency, sell_price |-> price, buy_price |-> price,
     source |-> "GoldPriceToday", source_status |-> "International"]

\* A dict of fetch_all_banks_for_currency.
BankRate(bank_name, currency, sell, buy) ==
    [bank_name |-> bank_name, currency |-> currency,
     sell_price |-> sell, buy_price |-> buy]

\* The dict SilverScraper.scrape returns.
SilverData(source_used, status, sell) ==
    [source_used |-> source_used, source_status |-> status,
     silver_999_sell |-> sell]

\* What the awaited manager of a loop can return.  SilverScraper.scrape
\* returns a dict with a price or raises.
Results(d) ==
    CASE d = "gold" -> {<<>>, <<GoldObs("21", 4500, 4450, "GoldEra", "Primary")>>}
      [] d = "country" -> {<<>>, <<CountryObs("egypt", "21", 4480, "EGP")>>}
      [] d = "currency" ->
            {<<>>, <<CurrencyObs("USD", 50, 49, "Ta3weem_nbe", "Primary")>>}
      [] d = "banks" -> {<<>>, <<BankRate("nbe", "USD", 50, 49)>>}
      [] d = "silver" -> {<<SilverData("safehavenhub", "Primary", 60)>>}

\* Faulty variant of HasResults: the loop writes whatever the manager
\* returned.
AlwaysWrite(prices) == TRUE

\* if prices: / if rates: / if results: / if silver_data:
HasResults(prices) == prices # <<>>

\* Faulty variant of ExceptHandler: the exception leaves the coroutine and
\* the task ends.
ExceptPropagates(d) == "dead"

\* except Exception as e: logger.error(...); finally: db.close(); then
\* await asyncio.sleep(interval)
ExceptHandler(d) == "sleep"

\* Loops holding a result they have not written yet.
Pending == Cardinality({d \in Domains : loops[d].pc = "write"
                                         /\ loops[d].prices # <<>>})

\* The rows run_full_bank_scrape_periodically inserts after the delete.
BankRows(results, now) ==
    [i \in 1..Len(results) |->
        [bank_name |-> results[i].bank_name,
         from_currency |-> results[i].currency, to_currency |-> "EGP",
         sell_price |-> results[i].sell_price,
         buy_price |-> results[i].buy_price, timestamp |-> now]]

\* Faulty variant of AddRow: a row with the price of the latest row is not
\* added.
AddRowIfChanged(rows, row) ==
    IF rows # <<>> /\ rows[Len(rows)].silver_999_sell = row.silver_999_sell
    THEN rows
    ELSE Append(rows, row)

\* db.add(silver_record)
AddRow(rows, row) == Append(rows, row)

\* Faulty variant of DeleteAll: the old rates stay.
DeleteNone(rows) == rows

\* db.query(models.BankCurrencyRate).delete()
DeleteAll(rows) == <<>>

\* The SilverPrice row run_silver_scraper_periodically adds.
SilverRow(data) ==
    [source_used |-> data.source_used, source_status |-> data.source_status,
     silver_999_sell |-> data.silver_999_sell]

\* while True: ...; db = database.SessionLocal()
Begin(d) ==
    /\ loops[d].pc = "sleep"
    /\ loops' = [loops EXCEPT ![d] = [pc |-> "run", prices |-> <<>>]]
    /\ event' = IF event.domain = d THEN NoEvent ELSE event
    /\ UNCHANGED <<unified, history, settings, clock, last, prev, cycle,
                   commits, bank_rates, silver_prices, apiVars>>

\* The settings query or the awaited manager raises (for silver also when
\* every source failed): the except clause logs it with logger.error.
ScrapeRaises(d) ==
    /\ loops[d].pc = "run"
    /\ loops' = [loops EXCEPT ![d] = [pc |-> ExceptHandler(d), prices |-> <<>>]]
    /\ UNCHANGED <<unified, history, settings, clock, last, prev, cycle,
                   event, commits, bank_rates, silver_prices, apiVars>>

\* The awaited manager returns.
ScrapeReturns(d) ==
    /\ loops[d].pc = "run"
    /\ \E prices \in Results(d) :
            /\ prices # <<>> => commits + Pending <= MaxCommits
            /\ loops' = [loops EXCEPT ![d] = [pc |-> "write", prices |-> prices]]
    /\ UNCHANGED <<unified, history, settings, clock, last, prev, cycle,
                   event, commits, bank_rates, silver_prices, apiVars>>

\* The body of the if: save_prices_to_db / save_currency_prices_to_db, the
\* delete and the inserts of the bank loop, the insert of the silver loop,
\* each ended by db.commit(); then db.close().  failAt = 0: no failure.
StoreWrite(d, prices, failAt) ==
    LET now == clock + 1
        ok == failAt = 0
    IN CASE d \in {"gold", "country", "currency"} ->
              LET r == save_prices_to_db(unified, history, prices, failAt, now)
              IN /\ unified' = r.unified
                 /\ history' = r.history
                 /\ UNCHANGED <<bank_rates, silver_prices>>
         [] d = "banks" ->
              /\ bank_rates' =
                    CloseSession(bank_rates,
                                 DeleteAll(bank_rates) \o BankRows(prices, now), ok)
              /\ UNCHANGED <<unified, history, silver_prices>>
         [] d = "silver" ->
              /\ silver_prices' =
                    CloseSession(silver_prices,
                                 AddRow(silver_prices, SilverRow(prices[1])), ok)
              /\ UNCHANGED <<unified, history, bank_rates>>

\* From the return of the await to the sleep.
Write(d) ==
    /\ loops[d].pc = "write"
    /\ LET prices == loops[d].prices
       IN IF HasResults(prices)
          THEN \E failAt \in 0..(Len(prices) + 1) :
                  /\ (failAt = 0 /\ prices # <<>>) => commits < MaxCommits
                  /\ StoreWrite(d, prices, failAt)
                  /\ clock' = IF failAt = 0 THEN clock + 1 ELSE clock
                  /\ commits' = IF failAt = 0 THEN commits + 1 ELSE commits
                  /\ event' = IF failAt = 0 THEN event
                               ELSE [domain |-> d, what |-> "failed"]
                  /\ loops' = [loops EXCEPT ![d] =
                                  [pc |-> IF failAt = 0 THEN "sleep"
                                          ELSE ExceptHandler(d),
                                   prices |-> <<>>]]
          ELSE /\ loops' = [loops EXCEPT ![d] = [pc |-> "sleep", prices |-> <<>>]]
               /\ UNCHANGED <<unified, history, clock, event, commits,
                              bank_rates, silver_prices>>
    /\ UNCHANGED <<settings, last, prev, cycle, apiVars>>

\* POST /manual-price while the loops run.  Removing an override that is not
\* set changes nothing.
OperatorManual(karat, price) ==
    /\ clock - commits < MaxManual
    /\ price = NoPrice => karat \in DOMAIN settings
    /\ settings' = ManualSettings(settings, karat, price)
    /\ history' = ManualHistory(history, karat, price, clock + 1)
    /\ unified' = ManualUnified(unified, karat, price, clock + 1)
    /\ clock' = clock + 1
    /\ UNCHANGED <<last, prev, cycle, loopVars, apiVars>>

\* The manual value an operator sets while the loops run.
OperatorPrices == {4700}

LoopStep(d) == Begin(d) \/ ScrapeRaises(d) \/ ScrapeReturns(d) \/ Write(d)

Operator ==
    \E karat \in ManualKarats : \E price \in OperatorPrices \cup {NoPrice} :
        OperatorManual(karat, price)

Loops == \E d \in Domains : LoopStep(d)

LoopNext == Loops \/ Operator

SpecLoop == Init /\ [][LoopNext]_vars

\* asyncio.sleep(interval) returns, every request of an adapter has a
\* timeout, and the code after the await does not wait: a loop that can take
\* a step takes it.
FairLoop ==
    Init /\ [][Loops]_vars /\ \A d \in Domains : WF_vars(LoopStep(d))

\* POST /scrape, POST /scrape/currency, POST /trigger-scrape: async handlers
\* on the event loop of the scheduler loops.  The request arrives, the
\* manager is constructed and awaited.
TriggerBegin(d) ==
    /\ triggers[d].pc = "idle"
    /\ triggers' = [triggers EXCEPT ![d] = [pc |-> "run", prices |-> <<>>]]
    /\ UNCHANGED <<unified, history, settings, clock, last, prev, cycle,
                   loopVars, options, reply, cache, calls, sets>>

\* The awaited manager returns to the handler.
TriggerReturns(d) ==
    /\ triggers[d].pc = "run"
    /\ \E prices \in Results(d) :
            triggers' = [triggers EXCEPT ![d] = [pc |-> "write", prices |-> prices]]
    /\ UNCHANGED <<unified, history, settings, clock, last, prev, cycle,
                   loopVars, options, reply, cache, calls, sets>>

\* trigger_gold_scrape and admin's trigger_currency_scrape save "if prices:"
\* / "if rates:"; currency.py's trigger_currency_scrape deletes, inserts and
\* commits whatever the manager returned.
TriggerSaves(d, prices) == d = "banks" \/ HasResults(prices)

\* From the return of the await to the response; get_db closes the session.
TriggerWrite(d) ==
    /\ triggers[d].pc = "write"
    /\ triggers' = [triggers EXCEPT ![d] = [pc |-> "idle", prices |-> <<>>]]
    /\ LET prices == triggers[d].prices
       IN IF TriggerSaves(d, prices)
          THEN \E failAt \in 0..(Len(prices) + 1) :
                  /\ failAt = 0 => clock - commits < MaxManual
                  /\ StoreWrite(d, prices, failAt)
                  /\ clock' = IF failAt = 0 THEN clock + 1 ELSE clock
          ELSE UNCHANGED <<unified, history, clock, bank_rates, silver_prices>>
    /\ UNCHANGED <<settings, last, prev, cycle, loops, event, commits,
                   options, reply, cache, calls, sets>>

TriggerStep(d) == TriggerBegin(d) \/ TriggerReturns(d) \/ TriggerWrite(d)

TriggeredLoops == \E d \in TriggerDomains : LoopStep(d)

Triggers == \E d \in TriggerDomains : TriggerStep(d)

TriggerNext == TriggeredLoops \/ Triggers

SpecTrigger == Init /\ [][TriggerNext]_vars

\* The bank and silver tables as an earlier run of the process left them.
EarlierBankRates ==
    {<<>>,
     BankRows(<<BankRate("nbe", "USD", 49, 48), BankRate("cib", "EUR", 55, 54)>>, 0)}

EarlierSilverPrices ==
    {<<>>,
     <<SilverRow(SilverData("safehavenhub", "Primary", 60))>>,
     <<SilverRow(SilverData("gold-price-live", "Fallback", 58))>>}

\* The process starts on a database file that holds rows already.
TableInit ==
    /\ StoreInit
    /\ cycle = Idle
    /\ ApiInit
    /\ loops = [d \in Domains |-> [pc |-> "sleep", prices |-> <<>>]]
    /\ event = NoEvent
    /\ commits = 0
    /\ bank_rates \in EarlierBankRates
    /\ silver_prices \in EarlierSilverPrices

BankLoop == LoopStep("banks")

SilverLoop == LoopStep("silver")

TableNext == BankLoop \/ SilverLoop

SpecTables == TableInit /\ [][TableNext]_vars

-----------------------------------------------------------------------------
(* GET /prices and POST /settings.  A value of table settings is a text:   *)
(* one that float() parses to a number, the empty string, or another       *)
(* string.                                                                 *)

Num(n) == [kind |-> "number", num |-> n]

Blank == [kind |-> "blank", num |-> 0]

Word == [kind |-> "word", num |-> 0]

\* float(value): the number, or ValueError.
float(text) == [ok |-> text.kind = "number", value |-> text.num]

\* f"manual_price_{p.key}"
ManualKey(key) == "manual_price_" \o key

\* Faulty variant of OffsetText: an empty price_offset is parsed as it is.
OffsetTextRaw(table) ==
    IF "price_offset" \in DOMAIN table THEN table["price_offset"] ELSE Num(0)

\* settings.get("price_offset", "0") or "0"
OffsetText(table) ==
    IF "price_offset" \in DOMAIN table /\ table["price_offset"].kind # "blank"
    THEN table["price_offset"]
    ELSE Num(0)

\* if manual_key in settings and settings[manual_key]:
HasManual(table, key) ==
    /\ ManualKey(key) \in DOMAIN table
    /\ table[ManualKey(key)].kind # "blank"

\* The GoldPrice object appended for a snapshot row.
PriceOut(p, sell_price, buy_price, source_status) ==
    [id |-> p.id, karat |-> p.key, sell_price |-> sell_price,
     buy_price |-> buy_price, currency |-> p.currency, country |-> p.country,
     timestamp |-> p.last_update, source |-> p.source_name,
     source_status |-> source_status, type |-> p.type]

\* One iteration of the loop of read_current_prices.
ReadOne(p, table, offset) ==
    IF HasManual(table, p.key) /\ float(table[ManualKey(p.key)]).ok
    THEN LET manual_val == float(table[ManualKey(p.key)]).value
         IN PriceOut(p, manual_val, manual_val, "Manual")
    ELSE PriceOut(p, p.sell_price + offset, p.buy_price + offset,
                  p.source_status)

\* db.query(UnifiedPrice).filter(type.in_(["gold", "local"]),
\*     country == "egypt").all()
RECURSIVE EgyptGold(_)
EgyptGold(u) ==
    IF u = <<>> THEN <<>>
    ELSE IF Head(u).type \in {"gold", "local"} /\ Head(u).country = "egypt"
         THEN <<Head(u)>> \o EgyptGold(Tail(u))
         ELSE EgyptGold(Tail(u))

\* read_current_prices: the list it returns, or the ValueError of
\* float(price_offset) that leaves it.
read_current_prices(u, table) ==
    LET prices == EgyptGold(u)
        offset == float(OffsetText(table))
    IN IF prices = <<>> THEN [status |-> "ok", rows |-> <<>>]
       ELSE IF ~offset.ok THEN [status |-> "error", rows |-> <<>>]
       ELSE [status |-> "ok",
             rows |-> [i \in 1..Len(prices) |->
                          ReadOne(prices[i], table, offset.value)]]

\* The rows of table settings as a reader finds them: the manual_price rows
\* update_manual_price wrote with str(price) and the rows POST /settings
\* wrote.
SettingsTable(manual, posted) ==
    LET manual_keys == {ManualKey(karat) : karat \in DOMAIN manual}
    IN [k \in manual_keys \cup DOMAIN posted |->
            IF k \in manual_keys
            THEN Num(manual[CHOOSE karat \in DOMAIN manual : ManualKey(karat) = k])
            ELSE posted[k]]

\* POST /settings
update_setting(key, value) ==
    /\ options' = [k \in DOMAIN options \cup {key} |->
                        IF k = key THEN value ELSE options[k]]
    /\ UNCHANGED <<unified, history, settings, clock, last, prev, cycle,
                   loopVars, reply, cache, calls, sets, triggers>>

\* GET /prices
ReadPrices ==
    /\ reply' = read_current_prices(unified, SettingsTable(settings, options))
    /\ UNCHANGED <<unified, history, settings, clock, last, prev, cycle,
                   loopVars, options, cache, calls, sets, triggers>>

\* What an operator posts to /settings: an offset, and an override of
\* karat 24 written as a plain setting.
Posted ==
    {<<"price_offset", Blank>>, <<"price_offset", Word>>,
     <<"price_offset", Num(25)>>,
     <<ManualKey("24"), Blank>>, <<ManualKey("24"), Word>>,
     <<ManualKey("24"), Num(5200)>>}

PostSetting == \E kv \in Posted : update_setting(kv[1], kv[2])

\* Results the gold and currency cycles commit while requests are served.
ReadBatches ==
    {<<GoldObs("21", 4500, 4450, "GoldEra", "Primary"),
       GoldObs("24", 5100, 5050, "GoldEra", "Primary")>>,
     <<GoldObs("21", 4600, 4450, "GoldBullion", "Fallback")>>,
     <<CurrencyObs("USD", 50, 49, "Ta3weem_nbe", "Primary")>>}

CycleCommit == \E batch \in ReadBatches : SavePrices(batch, 0)

ReadNext == CycleCommit \/ PostSetting \/ ManualSet \/ ManualClear \/ ReadPrices

SpecRead == Init /\ [][ReadNext]_vars

-----------------------------------------------------------------------------
(* MemoryCache.  A method is a sequence of statements on the two dicts; a  *)
(* call record holds the statement a thread is at.  GET /snapshot is a     *)
(* synchronous handler, so its calls of get and set run on the threads of  *)
(* the worker pool and another thread can run between two statements.      *)

\* del d[key]
Without(d, key) == [k \in DOMAIN d \ {key} |-> d[k]]

\* d[key] = value
With(d, key, value) ==
    [k \in DOMAIN d \cup {key} |-> IF k = key THEN value ELSE d[k]]

\* Faulty variant of Fresh: the entry still counts at its expiry time.
FreshInclusive(now, expiry) == now <= expiry

\* time.time() < self._expiry[key]
Fresh(now, expiry) == now < expiry

\* A thread enters set, get or invalidate at time now.
NewCall(op, key, value, ttl, now) ==
    [op |-> op, pc |-> IF op = "set" THEN "put_data" ELSE "test",
     key |-> key, value |-> value, ttl |-> ttl, at |-> now, result |-> "None"]

Finished(call) == call.pc \in {"idle", "done", "raised"}

\* The next statement of a call, run at time now.  A subscript or a del of
\* a key the dict does not hold raises KeyError.
CacheStep(c, call, now) ==
    LET key == call.key
        to(pc) == [call EXCEPT !.pc = pc]
    IN CASE call.pc = "put_data" ->
              [cache |-> [c EXCEPT !.data = With(c.data, key, call.value)],
               call |-> to("put_expiry")]
         [] call.pc = "put_expiry" ->
              [cache |-> [c EXCEPT !.expiry = With(c.expiry, key, now + call.ttl)],
               call |-> to("done")]
         [] call.pc = "test" ->
              [cache |-> c,
               call |-> IF key \notin DOMAIN c.data THEN to("done")
                        ELSE IF call.op = "get" THEN to("expiry")
                        ELSE to("del_data")]
         [] call.pc = "expiry" ->
              [cache |-> c,
               call |-> IF key \notin DOMAIN c.expiry THEN to("raised")
                        ELSE IF Fresh(now, c.expiry[key]) THEN to("value")
                        ELSE to("del_data")]
         [] call.pc = "value" ->
              [cache |-> c,
               call |-> IF key \notin DOMAIN c.data THEN to("raised")
                        ELSE [call EXCEPT !.pc = "done", !.result = c.data[key]]]
         [] call.pc = "del_data" ->
              IF key \notin DOMAIN c.data
              THEN [cache |-> c, call |-> to("raised")]
              ELSE [cache |-> [c EXCEPT !.data = Without(c.data, key)],
                    call |-> to("del_expiry")]
         [] call.pc = "del_expiry" ->
              IF key \notin DOMAIN c.expiry
              THEN [cache |-> c, call |-> to("raised")]
              ELSE [cache |-> [c EXCEPT !.expiry = Without(c.expiry, key)],
                    call |-> to("done")]
         [] OTHER -> [cache |-> c, call |-> call]

\* A call run from its first statement to its return with no other thread
\* in between.
RECURSIVE Run(_, _, _)
Run(c, call, now) ==
    IF Finished(call) THEN [cache |-> c, call |-> call]
    ELSE LET r == CacheStep(c, call, now) IN Run(r.cache, r.call, now)

\* cache_key of get_full_market_snapshot, and a second key.
CacheKeys == {"v1_global_snapshot_final_v3", "other"}

CacheValues == {"snapshot1", "snapshot2"}

\* Lifetimes in clock units; get_full_market_snapshot passes ttl=60.
CacheTtls == {1, 2}

\* time.time() advances.
Tick ==
    /\ clock < MaxClock
    /\ clock' = clock + 1
    /\ UNCHANGED <<unified, history, settings, last, prev, cycle, loopVars,
                   apiVars>>

\* One caller at a time: the call returns before the next one is made.
CacheCall(op, key, value, ttl) ==
    /\ LET r == Run(cache, NewCall(op, key, value, ttl, clock), clock)
       IN /\ cache' = r.cache
          /\ calls' = [calls EXCEPT !["t1"] = r.call]
    /\ sets' = CASE op = "set" ->
                    With(sets, key, [value |-> value, at |-> clock, ttl |-> ttl])
               [] op = "invalidate" -> Without(sets, key)
               [] OTHER -> sets
    /\ UNCHANGED <<unified, history, settings, clock, last, prev, cycle,
                   loopVars, options, reply, triggers>>

CacheSet ==
    \E key \in CacheKeys : \E value \in CacheValues : \E ttl \in CacheTtls :
        CacheCall("set", key, value, ttl)

CacheGet == \E key \in CacheKeys : CacheCall("get", key, "", 0)

CacheInvalidate == \E key \in CacheKeys : CacheCall("invalidate", key, "", 0)

CacheNext == CacheSet \/ CacheGet \/ CacheInvalidate \/ Tick

SpecCache == Init /\ [][CacheNext]_vars

\* A thread of the pool enters a method of the cache.
Enter(t, op, key, value, ttl) ==
    /\ Finished(calls[t])
    /\ calls' = [calls EXCEPT ![t] = NewCall(op, key, value, ttl, clock)]
    /\ UNCHANGED <<unified, history, settings, clock, last, prev, cycle,
                   loopVars, options, reply, cache, sets, triggers>>

\* A thread runs its next statement.
Statement(t) ==
    /\ ~Finished(calls[t])
    /\ LET r == CacheStep(cache, calls[t], clock)
       IN /\ cache' = r.cache
          /\ calls' = [calls EXCEPT ![t] = r.call]
    /\ UNCHANGED <<unified, history, settings, clock, last, prev, cycle,
                   loopVars, options, reply, sets, triggers>>

\* The requests the pool serves: GET /snapshot calls get and, after a miss,
\* set with ttl=60; invalidate is the third method of the instance.
ThreadGet == \E t \in Threads : Enter(t, "get", "v1_global_snapshot_final_v3", "", 0)

ThreadSet ==
    \E t \in Threads : Enter(t, "set", "v1_global_snapshot_final_v3", "snapshot1", 1)

ThreadInvalidate ==
    \E t \in Threads : Enter(t, "invalidate", "v1_global_snapshot_final_v3", "", 0)

ThreadStep == \E t \in Threads : Statement(t)

ThreadNext == ThreadGet \/ ThreadSet \/ ThreadInvalidate \/ ThreadStep \/ Tick

SpecThreads == Init /\ [][ThreadNext]_vars

-----------------------------------------------------------------------------
(* Properties                                                              *)

\* Indices of the rows of u with the key (t, c, k).
KeyRows(u, t, c, k) ==
    {i \in 1..Len(u) : u[i].type = t /\ u[i].country = c /\ u[i].key = k}

\* Indices of the Egypt gold rows of u for a karat.
EgyptGoldRows(u, karat) ==
    {i \in 1..Len(u) : /\ u[i].type \in {"gold", "local"}
                       /\ u[i].country = "egypt"
                       /\ u[i].key = karat}

SameKey(p, q) ==
    /\ Lower(p.type) = Lower(q.type)
    /\ ObsCountry(p) = ObsCountry(q)
    /\ ObsKey(p) = ObsKey(q)

ObsRows(u, p) == KeyRows(u, Lower(p.type), ObsCountry(p), ObsKey(p))

IsEgyptGold(p, karat) ==
    /\ Lower(p.type) \in {"gold", "local"}
    /\ ObsCountry(p) = "egypt"
    /\ ObsKey(p) = karat

Saved == last.op = "save" /\ last.ok

\* Indices of the history rows the last operation added.
NewHistory == (Len(last.pre_history) + 1)..Len(history)

\* C1: after a manual override for karat K has put the snapshot row of K at
\* the manual value with status Manual, an automated commit carrying an
\* observation for the Egypt gold key K leaves that row at the manual value
\* and status Manual while the manual_price_K setting exists.
C1_ManualPrecedence ==
    \A karat \in DOMAIN settings :
        ( /\ Saved
          /\ \E i \in 1..Len(last.batch) : IsEgyptGold(last.batch[i], karat)
          /\ karat \in DOMAIN last.pre_settings
          /\ EgyptGoldRows(last.pre_unified, karat) # {}
          /\ \A i \in EgyptGoldRows(last.pre_unified, karat) :
                /\ last.pre_unified[i].source_status = "Manual"
                /\ last.pre_unified[i].sell_price = last.pre_settings[karat] )
        => \A i \in EgyptGoldRows(unified, karat) :
                /\ unified[i].sell_price = settings[karat]
                /\ unified[i].buy_price = settings[karat]
                /\ unified[i].source_status = "Manual"

\* C2: committing the same batch twice in a row adds no History Entry in the
\* second commit and leaves every snapshot price as the first commit set it.
C2_IdempotentCommit ==
    ( /\ Saved
      /\ prev.op = "save" /\ prev.ok
      /\ prev.batch = last.batch )
    => /\ Len(history) = Len(last.pre_history)
       /\ Len(unified) = Len(last.pre_unified)
       /\ \A i \in 1..Len(unified) :
            /\ unified[i].sell_price = last.pre_unified[i].sell_price
            /\ unified[i].buy_price = last.pre_unified[i].buy_price

\* C5: a commit of a single observation whose key has a row with another
\* sell or buy price puts the observation's prices, source and status in
\* that row and adds exactly one History Entry, which carries the new prices.
C5_ChangeDetection ==
    ( /\ Saved
      /\ Len(last.batch) = 1
      /\ \E i \in ObsRows(last.pre_unified, last.batch[1]) :
            \/ last.pre_unified[i].sell_price # last.batch[1].sell_price
            \/ last.pre_unified[i].buy_price # last.batch[1].buy_price )
    => LET p == last.batch[1]
       IN /\ Len(unified) = Len(last.pre_unified)
          /\ \A i \in ObsRows(last.pre_unified, p) :
                /\ unified[i].sell_price = p.sell_price
                /\ unified[i].buy_price = p.buy_price
                /\ unified[i].source_name = p.source
                /\ unified[i].source_status = p.source_status
                /\ unified[i].id = last.pre_unified[i].id
          /\ Len(history) = Len(last.pre_history) + 1
          /\ SubSeq(history, 1, Len(last.pre_history)) = last.pre_history
          /\ history[Len(history)].sell_price = p.sell_price
          /\ history[Len(history)].buy_price = p.buy_price
          /\ history[Len(history)].key = ObsKey(p)
          /\ history[Len(history)].type = Lower(p.type)
          /\ history[Len(history)].country = ObsCountry(p)

C5_Witness ==
    /\ Saved
    /\ Len(last.batch) = 1
    /\ \E i \in ObsRows(last.pre_unified, last.batch[1]) :
            /\ last.pre_unified[i].sell_price = last.batch[1].sell_price
            /\ last.pre_unified[i].buy_price # last.batch[1].buy_price
    /\ Len(history) = Len(last.pre_history) + 1

C7_SnapshotUnique ==
    \A i, j \in 1..Len(unified) :
        ( /\ unified[i].type = unified[j].type
          /\ unified[i].country = unified[j].country
          /\ unified[i].key = unified[j].key ) => i = j

\* A batch that repeats a key new to the store has been committed after a
\* manual override was set.
C7_Witness ==
    /\ Saved
    /\ Len(last.batch) = 2
    /\ SameKey(last.batch[1], last.batch[2])
    /\ ObsRows(last.pre_unified, last.batch[1]) = {}
    /\ DOMAIN settings # {}

C9_ManualSet ==
    last.op = "manual_set" =>
        /\ EgyptGoldRows(unified, last.karat) # {}
        /\ \A i \in EgyptGoldRows(unified, last.karat) :
                /\ unified[i].sell_price = last.price
                /\ unified[i].buy_price = last.price
                /\ unified[i].source_status = "Manual"
        /\ Len(history) = Len(last.pre_history) + 1

\* C20: no step of the core removes or changes a History Entry: after every
\* step the history begins with the whole history of before.
C20_AppendOnly ==
    [][/\ Len(history') >= Len(history)
       /\ SubSeq(history', 1, Len(history)) = history]_vars

\* Seeded, automated and manual entries are in the history and the override
\* has just been removed.
C20_Witness ==
    /\ last.op = "manual_clear"
    /\ \E i \in 1..Len(history) : history[i].source_name = "GoldPriceLiveDerived"
    /\ \E i \in 1..Len(history) : history[i].source_name = "Manual Override"

\* Positions of the resolved order whose fetch, in this cycle, answers at
\* least one observation with sell_price > 0 (gold), a non-empty list
\* (currency, per bank) or usable data (silver).
GoldSucceeds ==
    {i \in 1..Len(cycle.order) :
        LET page == GoldPage(cycle.web[i], cycle.order[i])
        IN /\ ~page.raises
           /\ \E j \in 1..Len(page.prices) : page.prices[j].sell_price > 0}

CurrencySucceeds(b) ==
    {i \in 1..Len(cycle.order) :
        /\ cycle.order[i] \in CurrencySites
        /\ cycle.web[b][i] = "rates"}

SilverSucceeds ==
    {i \in 1..Len(cycle.order) : cycle.web[i] = "data"}

First(S) == CHOOSE i \in S : \A j \in S : i <= j

\* C3: the observations a gold cycle returns come from the first adapter of
\* the resolved order whose fetch returned an observation with
\* sell_price > 0, and the cycle returns nothing when there is none.
C3_FirstSuccessWins ==
    (cycle.domain = "gold" /\ cycle.pc = "done") =>
        IF GoldSucceeds = {} THEN cycle.result = <<>>
        ELSE /\ cycle.result # <<>>
             /\ \A j \in 1..Len(cycle.result) :
                    cycle.result[j].source = cycle.order[First(GoldSucceeds)]

\* The winner is not the first of the order and a later adapter would have
\* returned more instruments.
C3_Witness ==
    /\ cycle.domain = "gold" /\ cycle.pc = "done"
    /\ cycle.result # <<>>
    /\ \E w \in 2..Len(cycle.order) :
        /\ cycle.result[1].source = cycle.order[w]
        /\ cycle.web[w] = "mixed"
        /\ cycle.web[1] = "zero"
        /\ \E i \in (w + 1)..Len(cycle.order) : cycle.web[i] = "two"

\* C18: a gold cycle returns no observation whose sell price lies below the
\* sanity floor of 500, and returns every row of the winning adapter's page
\* whose sell price is not below it.
C18_BandValidation ==
    (cycle.domain = "gold" /\ cycle.pc = "done" /\ cycle.result # <<>>) =>
        LET source == cycle.order[First(GoldSucceeds)]
            rows == PageRows(cycle.web[First(GoldSucceeds)])
        IN /\ \A j \in 1..Len(cycle.result) :
                    cycle.result[j].sell_price >= gold_floor
           /\ \A i \in 1..Len(rows) :
                    GoldRowObs(source, rows[i]).sell_price >= gold_floor
                    => \E j \in 1..Len(cycle.result) :
                            /\ cycle.result[j].karat = rows[i].karat
                            /\ cycle.result[j].sell_price =
                                    GoldRowObs(source, rows[i]).sell_price

\* The adapters fetched so far in this cycle whose fetch failed.
FailedFetches ==
    IF cycle.domain = "currency"
    THEN {CurrencySourceName(cycle.order[i], Banks[b]) :
            <<b, i>> \in {x \in (1..Len(Banks)) \X (1..Len(cycle.order)) :
                /\ cycle.web[x[1]][x[2]] = "raise"
                /\ \E f \in 1..Len(cycle.fetched) :
                        cycle.fetched[f] =
                            CurrencySourceName(cycle.order[x[2]], Banks[x[1]])}}
    ELSE {cycle.order[i] : i \in {x \in 1..Len(cycle.fetched) :
                                        cycle.web[x] = "raise"}}

\* C19: in every cycle of the gold, currency and silver managers, no
\* exception of a failed fetch leaves its adapter, and every adapter whose
\* fetch failed retains the failure in its last-error field.
C19_FailureContained ==
    /\ cycle.raised = {}
    /\ FailedFetches \subseteq cycle.last_error

\* The built-in adapters of a domain and their fixed default order.
DefaultOf(domain) ==
    CASE domain = "gold" -> default_order
      [] domain = "silver" -> silver_default
      [] OTHER -> currency_default

BuiltIn(domain) == Range(DefaultOf(domain))

\* The order the resolver has returned for this cycle.
Resolved == cycle.domain # "none" /\ cycle.pc # "resolve"

\* The cycle's resolver reads a settings table that has rows.
ReadsTable ==
    /\ cycle.domain \in {"currency", "banks", "silver"}
    /\ cycle.store.readable
    /\ cycle.store.rows # <<>>

\* order lists exactly the enabled rows, in ascending priority.
EnabledAscending(order, rows) ==
    /\ Range(order) = {rows[i].source_name :
                            i \in {j \in 1..Len(rows) : rows[j].is_enabled}}
    /\ \A i, j \in 1..Len(order) :
            i < j => /\ order[i] # order[j]
                     /\ PriorityOf(rows, order[i]) <= PriorityOf(rows, order[j])

\* C15: in every cycle of the currency, bank-aggregate and silver managers
\* whose settings table has rows, the resolved list holds exactly the rows
\* with is_enabled = true in ascending priority, and no adapter whose row is
\* disabled is fetched.
C15_EnabledOnly ==
    (Resolved /\ ReadsTable) =>
        /\ EnabledAscending(cycle.order, cycle.store.rows)
        /\ \A f \in 1..Len(cycle.fetched) :
                \E i \in 1..Len(cycle.store.rows) :
                    /\ cycle.store.rows[i].source_name = SiteOf(cycle.fetched[f])
                    /\ cycle.store.rows[i].is_enabled

Reconciles(order, persisted, default) ==
    LET IsBuiltIn(n) == n \in Range(default)
        named == SelectSeq(persisted, IsBuiltIn)
        DefaultIndex(n) == CHOOSE i \in 1..Len(default) : default[i] = n
    IN /\ Len(order) >= Len(named)
       /\ SubSeq(order, 1, Len(named)) = named
       /\ \A n \in Range(default) : n \in Range(order)
       /\ \A i \in (Len(named) + 1)..Len(order) :
            /\ order[i] \in Range(default) \ Range(named)
            /\ \A j \in (i + 1)..Len(order) :
                    DefaultIndex(order[i]) < DefaultIndex(order[j])

\* The persisted order a resolver starts from.
PersistedOrders ==
    IF cycle.domain = "gold" THEN {cycle.store.names}
    ELSE EnabledInOrder(cycle.store.rows)

\* C17 as claimed, for the resolvers of all four domains: the resolved list
\* is the persisted order reconciled with the built-in adapters, so it holds
\* every built-in adapter.
C17_ReconciledAll ==
    (Resolved /\ cycle.store.readable /\ HasSession(cycle.domain, cycle.caller)) =>
        \E persisted \in PersistedOrders :
            Reconciles(cycle.order, persisted, DefaultOf(cycle.domain))

\* C17, amended: the gold resolver reconciles the persisted
\* gold_source_order with the built-in adapters (unknown names skipped, named
\* adapters in persisted order, the others appended in default order); the
\* currency, bank-aggregate and silver resolvers, given a session and a
\* readable table with an enabled row, return exactly the enabled rows in
\* ascending priority and append nothing, and otherwise the default list.
C17_ReconciledGold ==
    Resolved =>
        IF cycle.domain = "gold"
        THEN Reconciles(cycle.order,
                        IF cycle.store.readable THEN cycle.store.names ELSE <<>>,
                        default_order)
        ELSE IF /\ HasSession(cycle.domain, cycle.caller)
                /\ cycle.store.readable
                /\ \E i \in 1..Len(cycle.store.rows) : cycle.store.rows[i].is_enabled
             THEN EnabledAscending(cycle.order, cycle.store.rows)
             ELSE cycle.order = DefaultOf(cycle.domain)

\* A gold order naming an unknown source and the last built-in adapter has
\* been resolved.
C17_Witness ==
    /\ cycle.domain = "gold" /\ cycle.pc # "resolve"
    /\ cycle.store.names = <<"Isagha", "SouqPriceToday">>
    /\ cycle.order[1] = "SouqPriceToday"
    /\ Len(cycle.order) = Len(default_order)

\* The step that ends a cycle of loop d whose manager produced nothing: the
\* manager returned an empty list, or (silver) the scrape raised.
ExhaustedEnd(d) ==
    /\ loops'[d] # loops[d]
    /\ \/ loops[d].pc = "write" /\ loops[d].prices = <<>>
       \/ d = "silver" /\ loops[d].pc = "run" /\ loops'[d].pc # "write"

\* C11: a cycle in which every adapter returned nothing writes nothing: the
\* step that ends it leaves unified_prices, price_history, bank_currency_rates
\* and silver_prices as they were, and the loop goes to its sleep, from which
\* the next cycle starts.
C11_ExhaustedNoWrite ==
    [][\A d \in Domains :
            ExhaustedEnd(d) =>
                /\ unified' = unified
                /\ history' = history
                /\ bank_rates' = bank_rates
                /\ silver_prices' = silver_prices
                /\ loops'[d].pc = "sleep"]_vars

C11_Witness ==
    /\ bank_rates # <<>>
    /\ loops["banks"].pc = "write"
    /\ loops["banks"].prices = <<>>

CurrencyWriteFails ==
    /\ loops["currency"].pc = "write"
    /\ loops["currency"].prices # <<>>
    /\ loops'["currency"].pc # "write"
    /\ commits' = commits

\* The gold cycle holds a batch and commits it.
GoldCommits == Write("gold") /\ commits' = commits + 1

\* C13: a failed store write of the currency cycle changes no committed row
\* and leaves the gold cycle where it is, and a gold cycle that holds a batch
\* can commit it whatever the currency cycle did.
C13_Independent ==
    /\ [][CurrencyWriteFails =>
            /\ unified' = unified
            /\ history' = history
            /\ loops'["gold"] = loops["gold"]]_vars
    /\ []( ( /\ loops["gold"].pc = "write"
             /\ loops["gold"].prices # <<>>
             /\ commits < MaxCommits )
           => ENABLED GoldCommits )

C13_Witness ==
    /\ event = [domain |-> "currency", what |-> "failed"]
    /\ loops["gold"].pc = "run"
    /\ EgyptGoldRows(unified, "21") # {}

\* C14: while manual_price_K is set, the snapshot row of K holds the manual
\* value with status Manual, however update_manual_price and a gold cycle
\* interleave.
C14_NoStaleCommit ==
    \A karat \in DOMAIN settings :
        \A i \in EgyptGoldRows(unified, karat) :
            /\ unified[i].source_status = "Manual"
            /\ unified[i].sell_price = settings[karat]
            /\ unified[i].buy_price = settings[karat]

\* C21: a commit of a single observation whose key has a row with the same
\* sell and buy price but another source or status puts the observation's
\* source, status and the commit time in that row, leaves its prices and
\* adds no History Entry.
C21_MetadataRefresh ==
    ( /\ Saved
      /\ Len(last.batch) = 1
      /\ \E i \in ObsRows(last.pre_unified, last.batch[1]) :
            /\ last.pre_unified[i].sell_price = last.batch[1].sell_price
            /\ last.pre_unified[i].buy_price = last.batch[1].buy_price
            /\ \/ last.pre_unified[i].source_name # last.batch[1].source
               \/ last.pre_unified[i].source_status # last.batch[1].source_status )
    => LET p == last.batch[1]
       IN /\ Len(unified) = Len(last.pre_unified)
          /\ \A i \in ObsRows(last.pre_unified, p) :
                /\ unified[i].source_name = p.source
                /\ unified[i].source_status = p.source_status
                /\ unified[i].last_update = clock
                /\ unified[i].last_update > last.pre_unified[i].last_update
                /\ unified[i].sell_price = last.pre_unified[i].sell_price
                /\ unified[i].buy_price = last.pre_unified[i].buy_price
          /\ history = last.pre_history

C21_Witness ==
    /\ Saved
    /\ Len(last.batch) = 1
    /\ \E i \in ObsRows(last.pre_unified, last.batch[1]) :
            /\ last.pre_unified[i].sell_price = last.batch[1].sell_price
            /\ last.pre_unified[i].buy_price = last.batch[1].buy_price
            /\ last.pre_unified[i].source_name # last.batch[1].source
            /\ unified[i].source_name = last.batch[1].source

\* 1 when the prices of observation p differ from those of q, else 0.
Differs(p, q) ==
    IF p.sell_price # q.sell_price \/ p.buy_price # q.buy_price THEN 1 ELSE 0

ScenarioObs(source) == GoldObs("21", 4500, 4450, source, "")

\* A gold cycle over the empty store in which the first adapter of the order
\* returned nothing and the second returned the scenario's observation, after
\* the caller saved the result.
FallbackScenario ==
    /\ cycle.domain = "gold" /\ cycle.pc = "saved"
    /\ Len(cycle.order) >= 2
    /\ GoldPage(cycle.web[1], cycle.order[1]).prices = <<>>
    /\ GoldPage(cycle.web[2], cycle.order[2]).prices
            = <<ScenarioObs(cycle.order[2])>>

BanksSucceeds ==
    {i \in 1..Len(cycle.order) :
        /\ cycle.order[i] \in BanksSites
        /\ cycle.web[i] = "banks"}

\* The positions of the resolved order that answer a valid result in the
\* running cycle of a manager with one pass over its order.
Succeeds ==
    CASE cycle.domain = "gold" -> GoldSucceeds
      [] cycle.domain = "banks" -> BanksSucceeds
      [] OTHER -> SilverSucceeds

\* The fetches the currency manager has made for bank b, in their order.
FetchedFor(b) ==
    SelectSeq(cycle.fetched,
              LAMBDA n : n \in {CurrencySourceName(site, Banks[b]) :
                                    site \in CurrencySites})

NoRepeat(f) == \A i, j \in DOMAIN f : i # j => f[i] # f[j]

\* The fetches follow the resolved order from its first position on.
FetchedInOrder ==
    IF cycle.domain = "currency"
    THEN \A b \in DOMAIN Banks :
            /\ Len(FetchedFor(b)) <= Len(cycle.order)
            /\ \A i \in DOMAIN FetchedFor(b) :
                    FetchedFor(b)[i] = CurrencySourceName(cycle.order[i], Banks[b])
    ELSE /\ Len(cycle.fetched) <= Len(cycle.order)
         /\ \A i \in DOMAIN cycle.fetched : cycle.fetched[i] = cycle.order[i]

\* No fetch follows a fetch that answered a valid result.
StopsAtFirstSuccess ==
    IF cycle.domain = "currency"
    THEN \A b \in DOMAIN Banks :
            \A i \in 1..(Len(FetchedFor(b)) - 1) : i \notin CurrencySucceeds(b)
    ELSE \A i \in 1..(Len(cycle.fetched) - 1) : i \notin Succeeds

\* C24: in every cycle of a fallback manager the adapters are fetched one
\* after another in the resolved order, no adapter is fetched twice, and no
\* adapter is fetched after one has answered a valid result.
C24_OneFetchEach ==
    cycle.pc # "resolve" =>
        /\ FetchedInOrder
        /\ NoRepeat(cycle.fetched)
        /\ StopsAtFirstSuccess

\* The settings table a GET /prices request finds.
Table == SettingsTable(settings, options)

\* The manual_price_<key> setting holds a number.
ManualNumber(table, key) ==
    /\ ManualKey(key) \in DOMAIN table
    /\ table[ManualKey(key)].kind = "number"

\* The price_offset setting as a number: 0 when absent or empty.
OffsetNumber(table) ==
    IF "price_offset" \in DOMAIN table /\ table["price_offset"].kind = "number"
    THEN table["price_offset"].num
    ELSE 0

\* r is the answer the claim describes for the snapshot u and the settings.
ManualFirst(r, u, table) ==
    /\ Len(r.rows) = Cardinality({i \in 1..Len(u) :
                            u[i].type \in {"gold", "local"}
                            /\ u[i].country = "egypt"})
    /\ \A i \in 1..Len(u) :
        (u[i].type \in {"gold", "local"} /\ u[i].country = "egypt") =>
            \E j \in 1..Len(r.rows) :
                /\ r.rows[j].id = u[i].id
                /\ r.rows[j].karat = u[i].key
                /\ IF ManualNumber(table, u[i].key)
                   THEN /\ r.rows[j].sell_price = table[ManualKey(u[i].key)].num
                        /\ r.rows[j].buy_price = table[ManualKey(u[i].key)].num
                        /\ r.rows[j].source_status = "Manual"
                   ELSE /\ r.rows[j].sell_price = u[i].sell_price + OffsetNumber(table)
                        /\ r.rows[j].buy_price = u[i].buy_price + OffsetNumber(table)
                        /\ r.rows[j].source_status = u[i].source_status

C26_TtlCache ==
    /\ [][(calls' # calls /\ calls'["t1"].op = "get") =>
            LET k == calls'["t1"].key
                live == /\ k \in DOMAIN sets
                        /\ clock < sets[k].at + sets[k].ttl
            IN /\ calls'["t1"].pc = "done"
               /\ calls'["t1"].result = IF live THEN sets[k].value ELSE "None"
               /\ ~live => k \notin DOMAIN cache'.data]_vars
    /\ [](DOMAIN cache.data = DOMAIN cache.expiry)

\* A get made exactly at the set's time plus ttl has returned None and the
\* entry is gone, while the other key is still cached.
C26_Witness ==
    /\ calls["t1"].op = "get" /\ calls["t1"].pc = "done"
    /\ calls["t1"].result = "None"
    /\ calls["t1"].key \in DOMAIN sets
    /\ calls["t1"].at = sets[calls["t1"].key].at + sets[calls["t1"].key].ttl
    /\ calls["t1"].key \notin DOMAIN cache.data
    /\ "other" \in DOMAIN cache.data

\* C27: no call of get, set or invalidate made by concurrent request
\* threads raises, and when no thread is inside a method the two dicts hold
\* the same keys.
C27_ThreadSafe ==
    /\ \A t \in Threads : calls[t].pc # "raised"
    /\ (\A t \in Threads : Finished(calls[t])) =>
            DOMAIN cache.data = DOMAIN cache.expiry

\* The step of loop d from the return of its manager to its sleep.
WriteStep(d) == loops[d].pc = "write" /\ loops'[d].pc # "write"

\* The rows of the table are the rates of the result, one row per rate.
ExactlyRates(rows, results) ==
    /\ Len(rows) = Len(results)
    /\ \A i \in 1..Len(results) :
            /\ rows[i].bank_name = results[i].bank_name
            /\ rows[i].from_currency = results[i].currency
            /\ rows[i].sell_price = results[i].sell_price
            /\ rows[i].buy_price = results[i].buy_price

\* C29: a bank cycle that commits a non-empty result leaves in
\* bank_currency_rates exactly the rows of that result, in one step; a cycle
\* whose scrape returned nothing, raised or failed before its commit, and
\* every other step, leaves the table as it was.
C29_BankReplace ==
    [][IF WriteStep("banks") /\ commits' = commits + 1
       THEN /\ loops["banks"].prices # <<>>
            /\ ExactlyRates(bank_rates', loops["banks"].prices)
       ELSE bank_rates' = bank_rates]_vars

\* A bank cycle has committed its USD-only result and the table holds that
\* row alone, also where the process started on a USD and a EUR row.
C29_Witness ==
    /\ commits = 1
    /\ loops["banks"].pc = "sleep"
    /\ Len(bank_rates) = 1
    /\ bank_rates[1].from_currency = "USD" /\ bank_rates[1].sell_price = 50
    /\ bank_rates[1].timestamp > 0

\* C30: a silver cycle whose scrape returned data and whose write commits
\* appends one row holding that data and leaves the rows before it as they
\* were; every other step (a cycle in which all sources failed, a failed
\* write) leaves silver_prices as it was.
C30_SilverAppend ==
    [][IF WriteStep("silver") /\ commits' = commits + 1
       THEN /\ loops["silver"].prices # <<>>
            /\ Len(silver_prices') = Len(silver_prices) + 1
            /\ SubSeq(silver_prices', 1, Len(silver_prices)) = silver_prices
            /\ LET row == silver_prices'[Len(silver_prices')]
                   data == loops["silver"].prices[1]
               IN /\ row.silver_999_sell = data.silver_999_sell
                  /\ row.source_used = data.source_used
                  /\ row.source_status = data.source_status
       ELSE silver_prices' = silver_prices]_vars

\* The cycle has appended a row equal in price to the row before it.
C30_Witness ==
    /\ commits = 1
    /\ Len(silver_prices) = 2
    /\ silver_prices[1].silver_999_sell = silver_prices[2].silver_999_sell

\* A cycle is in progress from the start of its fetch to the end of its
\* write.
LoopCycling(d) == loops[d].pc \in {"run", "write"}

TriggerCycling(d) == triggers[d].pc \in {"run", "write"}

\* C22: no cycle started by a trigger endpoint is in progress together with
\* a cycle of the scheduler loop of the same domain.
C22_SequentialCycles ==
    \A d \in TriggerDomains : ~(LoopCycling(d) /\ TriggerCycling(d))

\* C4: all observations one cycle returns come from the same source.
C4_SingleSource ==
    cycle.pc = "done" =>
        \A i, j \in 1..Len(cycle.result) :
            SiteOf(cycle.result[i].source) = SiteOf(cycle.result[j].source)

\* The bank an adapter name of the currency manager belongs to.
BankIndex(name) ==
    IF name \in {"Ta3weem_nbe", "Egrates_nbe", "BankLive_nbe"} THEN 1 ELSE 2

\* The position in the resolved order of the adapter that won result[j].
Winner(j) ==
    CASE cycle.domain = "gold" -> First(GoldSucceeds)
      [] cycle.domain = "currency" ->
            First(CurrencySucceeds(BankIndex(cycle.result[j].source)))
      [] OTHER -> First(SilverSucceeds)

\* The adapter at position i of the order was fetched for result[j]'s bank.
Tried(i, j) ==
    CASE cycle.domain = "currency" ->
            \E f \in 1..Len(cycle.fetched) :
                cycle.fetched[f] =
                    CurrencySourceName(cycle.order[i],
                                       Banks[BankIndex(cycle.result[j].source)])
      [] OTHER -> \E f \in 1..Len(cycle.fetched) : cycle.fetched[f] = cycle.order[i]

\* C10: in a successful cycle of the gold, currency or silver manager, a
\* result is tagged Primary exactly when its adapter is the first of the
\* resolved order, and Fallback exactly when it is a later one, every
\* adapter before it having been tried without success.
C10_PrimaryFallback ==
    (cycle.domain \in {"gold", "currency", "silver"} /\ cycle.pc = "done") =>
        \A j \in 1..Len(cycle.result) :
            /\ cycle.result[j].source_status \in {"Primary", "Fallback"}
            /\ cycle.result[j].source_status = "Primary" <=> Winner(j) = 1
            /\ cycle.result[j].source_status = "Fallback" <=>
                    /\ Winner(j) > 1
                    /\ \A i \in 1..(Winner(j) - 1) : Tried(i, j)

\* A currency cycle whose nbe rates are Primary and whose bdc rates are
\* Fallback.
C10_Witness ==
    /\ cycle.domain = "currency" /\ cycle.pc = "done"
    /\ Len(cycle.result) = 2
    /\ cycle.result[1].source_status = "Primary"
    /\ cycle.result[2].source_status = "Fallback"

====
